---- MODULE Spec2Model ----
(***************************************************************************)
(* Model of github.com/dschnare/jsonfilter, package filter.                *)
(*                                                                         *)
(* Strings are sequences of one-character strings, so that the textual     *)
(* path the traversal builds (fmt.Sprintf) and the resolver takes apart    *)
(* again (strings.FieldsFunc, strings.Trim, strconv.ParseInt) is modelled  *)
(* character by character.  A JSON node is a record with a kind and one    *)
(* payload field per kind.                                                 *)
(***************************************************************************)
EXTENDS Integers, Sequences, FiniteSets, TLC

(***************************************************************************)
(* Bounds of the model.                                                    *)
(***************************************************************************)
\* longest array of the data documents
MaxArrLen == 3
\* number of times a flat data document is wrapped into a further container
MaxNest == 2

(***************************************************************************)
(* JSON values (encoding/json decoding into interface{}).                  *)
(***************************************************************************)
Str(s)  == [k |-> "string", s |-> s,    n |-> 0, a |-> <<>>, m |-> <<>>]
Num(n)  == [k |-> "number", s |-> <<>>, n |-> n, a |-> <<>>, m |-> <<>>]
Bool(b) == [k |-> "bool",   s |-> <<>>, n |-> IF b THEN 1 ELSE 0, a |-> <<>>, m |-> <<>>]
Null    == [k |-> "null",   s |-> <<>>, n |-> 0, a |-> <<>>, m |-> <<>>]
Arr(a)  == [k |-> "array",  s |-> <<>>, n |-> 0, a |-> a,    m |-> <<>>]
Obj(m)  == [k |-> "object", s |-> <<>>, n |-> 0, a |-> <<>>, m |-> m]

\* a path segment: the field name of an object or the position in an array
Key(name) == [t |-> "key", k |-> name, i |-> 0]
Index(i)  == [t |-> "idx", k |-> <<>>, i |-> i]

\* the node of tree v at the (structured) path p
RECURSIVE NodeAt(_, _)
NodeAt(v, p) ==
  IF p = <<>> THEN v
  ELSE IF Head(p).t = "key" THEN NodeAt(v.m[Head(p).k], Tail(p))
  ELSE NodeAt(v.a[Head(p).i + 1], Tail(p))

\* tree v with the node at path p replaced by w (m[k] = ..., slice[k] = ...)
RECURSIVE SetAt(_, _, _)
SetAt(v, p, w) ==
  IF p = <<>> THEN w
  ELSE IF Head(p).t = "key"
       THEN Obj([v.m EXCEPT ![Head(p).k] = SetAt(@, Tail(p), w)])
       ELSE Arr([v.a EXCEPT ![Head(p).i + 1] = SetAt(@, Tail(p), w)])

(***************************************************************************)
(* Text helpers of the Go standard library, as the code uses them.         *)
(***************************************************************************)
Digits == <<"0", "1", "2", "3", "4", "5", "6", "7", "8", "9">>

IsDigit(c) == \E d \in 1..10 : Digits[d] = c

DigitVal(c) == (CHOOSE d \in 1..10 : Digits[d] = c) - 1

\* fmt's %d of a non-negative int
RECURSIVE Itoa(_)
Itoa(n) == IF n < 10 THEN <<Digits[n + 1]>>
           ELSE Itoa(n \div 10) \o <<Digits[(n % 10) + 1]>>

\* fmt.Sprintf("%s['%s']", path, k)
SprintfKey(path, k) == path \o <<"[", "'">> \o k \o <<"'", "]">>

\* fmt.Sprintf("%s[%d]", path, k)
SprintfIndex(path, k) == path \o <<"[">> \o Itoa(k) \o <<"]">>

\* the separator predicate getFilterCommand hands to strings.FieldsFunc
IsBracket(r) == r = "[" \/ r = "]"

\* strings.FieldsFunc: the maximal runs of non-separator characters
RECURSIVE FieldsFrom(_, _, _, _)
FieldsFrom(s, i, cur, acc) ==
  IF i > Len(s) THEN (IF cur = <<>> THEN acc ELSE Append(acc, cur))
  ELSE IF IsBracket(s[i])
       THEN FieldsFrom(s, i + 1, <<>>, IF cur = <<>> THEN acc ELSE Append(acc, cur))
       ELSE FieldsFrom(s, i + 1, Append(cur, s[i]), acc)

FieldsFunc(s) == FieldsFrom(s, 1, <<>>, <<>>)

\* strings.Trim(s, "'"): all leading and trailing quote characters removed
RECURSIVE TrimLeft(_)
TrimLeft(s) == IF s # <<>> /\ Head(s) = "'" THEN TrimLeft(Tail(s)) ELSE s

RECURSIVE TrimRight(_)
TrimRight(s) == IF s # <<>> /\ s[Len(s)] = "'"
                THEN TrimRight(SubSeq(s, 1, Len(s) - 1)) ELSE s

\* faulty variant: the quotes are kept
TrimNothing(s) == s

Trim(s) == TrimRight(TrimLeft(s))

\* strings.HasSuffix
HasSuffix(s, suffix) ==
  /\ Len(s) >= Len(suffix)
  /\ SubSeq(s, Len(s) - Len(suffix) + 1, Len(s)) = suffix

\* largest value of a 32 bit signed integer (strconv.ParseInt bitSize 32)
MaxInt32 == 2147483647

\* the digits of s read as a non-positive number, 1 when it is below -2^31
RECURSIVE NegDecimal(_, _)
NegDecimal(s, acc) ==
  IF s = <<>> \/ acc > 0 THEN acc
  ELSE LET d == DigitVal(Head(s)) IN
       IF acc > -214748364 \/ (acc = -214748364 /\ d <= 8)
       THEN NegDecimal(Tail(s), acc * 10 - d)
       ELSE 1

\* strconv.ParseInt(s, 10, 32): an optional sign, then decimal digits only
ParseInt(s) ==
  LET neg  == s # <<>> /\ Head(s) = "-"
      body == IF s # <<>> /\ Head(s) \in {"+", "-"} THEN Tail(s) ELSE s
      syntaxOk == body # <<>> /\ \A j \in 1..Len(body) : IsDigit(body[j])
      nval == IF syntaxOk THEN NegDecimal(body, 0) ELSE 0
      inRange == nval <= 0 /\ (neg \/ nval >= -MaxInt32)
  IN [ok |-> syntaxOk /\ inRange,
      val |-> IF ~(syntaxOk /\ inRange) THEN 0 ELSE IF neg THEN nval ELSE -nval]

(***************************************************************************)
(* The filter resolver.                                                    *)
(***************************************************************************)
NotFound == [found |-> FALSE, node |-> Null]
Found(v) == [found |-> TRUE, node |-> v]

\* faulty variant: a single-element array is positional like any other array
sliceItemPositional(key, s) ==
  LET p == ParseInt(key) IN
  IF p.ok /\ p.val < Len(s) /\ p.val >= 0 THEN Found(s[p.val + 1]) ELSE NotFound

\* faulty variant: a position past the end takes the last element
sliceItemClamped(key, s) ==
  IF Len(s) = 1 THEN Found(s[1])
  ELSE LET p == ParseInt(key) IN
       IF p.ok /\ p.val >= 0 /\ Len(s) > 0
       THEN Found(s[IF p.val < Len(s) THEN p.val + 1 ELSE Len(s)])
       ELSE NotFound

\* the element of a specification array the key selects (case []interface{}
\* of getFilterCommandRec): the only element for any key, else the element
\* at the position the key spells
sliceItem(key, s) ==
  IF Len(s) = 1 THEN Found(s[1])
  ELSE LET p == ParseInt(key) IN
       IF p.ok /\ p.val < Len(s) /\ p.val >= 0 THEN Found(s[p.val + 1])
       ELSE NotFound

\* faulty variant: a String is the command only once the path is used up
RECURSIVE getFilterCommandRecExhausted(_, _)
getFilterCommandRecExhausted(keys, filters) ==
  IF Len(keys) = 0 THEN Found(filters)
  ELSE LET key == Trim(keys[1]) IN
    CASE filters.k = "object" ->
           IF key \in DOMAIN filters.m
           THEN getFilterCommandRecExhausted(Tail(keys), filters.m[key])
           ELSE NotFound
      [] filters.k = "array" ->
           LET item == sliceItem(key, filters.a) IN
           IF item.found THEN getFilterCommandRecExhausted(Tail(keys), item.node)
           ELSE NotFound
      [] OTHER -> NotFound

RECURSIVE getFilterCommandRec(_, _)
getFilterCommandRec(keys, filters) ==
  IF Len(keys) = 0 THEN Found(filters)
  ELSE LET key == Trim(keys[1]) IN
    CASE filters.k = "string" -> Found(filters)
      [] filters.k = "object" ->
           IF key \in DOMAIN filters.m
           THEN getFilterCommandRec(Tail(keys), filters.m[key])
           ELSE NotFound
      [] filters.k = "array" ->
           LET item == sliceItem(key, filters.a) IN
           IF item.found THEN getFilterCommandRec(Tail(keys), item.node)
           ELSE NotFound
      [] OTHER -> NotFound

\* (command, found) of getFilterCommand; command is "" when nothing is found
getFilterCommand(path, filters) ==
  LET keys == FieldsFunc(path)
      r    == getFilterCommandRec(keys, filters)
  IN IF r.found /\ r.node.k = "string"
     THEN [found |-> TRUE, command |-> r.node.s]
     ELSE [found |-> FALSE, command |-> <<>>]

(***************************************************************************)
(* The filter runner (type FilterRunner).  A successful run returns a      *)
(* string determined by the command and the value; a failing run returns   *)
(* an error together with some string.                                     *)
(***************************************************************************)
RunnerResult(command, value) == command \o <<":">> \o value

\* what a failing runner may return beside its error (the command line
\* runner returns the empty string)
FailResults == {<<>>, <<"E">>}

NoErr == [kind |-> "none", at |-> 0]
DecodeErr == [kind |-> "decode", at |-> 0]
OpenErr == [kind |-> "open", at |-> 0]
FilterDecodeErr == [kind |-> "filterdecode", at |-> 0]
\* the error of the n-th invocation of the runner
RunnerErr(n) == [kind |-> "runner", at |-> n]

(***************************************************************************)
(* Inputs: the JSON text, the filter argument and the file system.         *)
(***************************************************************************)
Sx == Str(<<"x">>)
Sy == Str(<<"y">>)
Cu == Str(<<"u">>)
Cl == Str(<<"l">>)

Ka == <<"a">>
Kb == <<"b">>
K0 == <<"0">>
Kquote == <<"a", "'">>
Kbracket == <<"a", "]">>

DataKeys == {Ka, Kb, K0, Kquote, Kbracket}
SpecKeys == {Ka, Kb, K0, Kquote}

DataLeaves == {Sx, Sy, Num(7), Bool(TRUE), Null}

DataFlat ==
  {Arr([j \in 1..n |-> Sx]) : n \in 0..MaxArrLen}
  \cup {Arr(<<Num(7), Sx>>)}
  \cup {Obj(k :> Sx) : k \in DataKeys}
  \cup {Obj(Ka :> Bool(TRUE))}
  \cup {Obj(Ka :> Sx @@ k :> Sy) : k \in DataKeys \ {Ka}}
  \cup {Obj(Ka :> Sx @@ Kb :> Null)}

\* a document wrapped into an object or into an array, beside a sibling
ObjWrap(T) == {Obj(Ka :> t @@ Kb :> Sy) : t \in T}
ArrWrap(T) == {Arr(<<t, Sy>>) : t \in T}

\* the documents of nesting level n whose root is an object (an array)
RECURSIVE DataLevel(_, _)
DataLevel(n, kind) ==
  LET inner == IF n = 1 THEN DataFlat
               ELSE DataLevel(n - 1, IF kind = "object" THEN "array" ELSE "object")
  IN IF kind = "object" THEN ObjWrap(inner) ELSE ArrWrap(inner)

DataDocs == DataLeaves \cup DataFlat
            \cup UNION {DataLevel(n, "object") \cup DataLevel(n, "array") : n \in 1..MaxNest}

\* longest array of the filter specifications
MaxSpecLen == 2

SpecLeaves == {Cu, Cl, Num(7), Bool(TRUE), Null}

SpecFlat ==
  {Arr([j \in 1..n |-> IF j % 2 = 1 THEN Cu ELSE Cl]) : n \in 0..MaxSpecLen}
  \cup {Arr(<<Num(7)>>), Arr(<<Cu, Null>>)}
  \cup {Obj(k :> Cu) : k \in SpecKeys}
  \cup {Obj(Ka :> Num(7))}
  \cup {Obj(Ka :> Cu @@ k :> Cl) : k \in SpecKeys \ {Ka}}
  \cup {Obj(<<>>)}

SpecNest(T) == {Obj(Ka :> s) : s \in T} \cup {Arr(<<s>>) : s \in T}
               \cup {Arr(<<Cl, s>>) : s \in T}

SpecDocs == SpecLeaves \cup SpecFlat \cup SpecNest(SpecFlat)
            \cup {Obj(Ka :> Arr(<<Obj(Kb :> Cu)>>))}

\* what reading a text or a file gives: a document, nothing at all (io.EOF)
\* or a syntax error
Content(D) == {[st |-> "ok", doc |-> d] : d \in D}
              \cup {[st |-> "eof", doc |-> Null], [st |-> "bad", doc |-> Null]}

Missing == [st |-> "missing", doc |-> Null]

FilterFile == <<"f", ".", "j", "s", "o", "n">>
BareCommands == {<<"u">>, <<"l">>}

VARIABLES
  text,     \* the JSON input handed to FilterJsonFromText
  filter,   \* the filter argument
  file,     \* what the file system holds under the name FilterFile
  pc,       \* "ready", "traverse" or "done"
  value,    \* the value FilterJsonFromText returns (mutated in place)
  filters,  \* the specification doFilter loaded
  err,      \* the error FilterJsonFromText returns
  frames,   \* the running loops of traverseMap / traverseSlice, innermost last
  opened,   \* the names of the files opened so far
  visits    \* the calls of the visitor (doRunFilter) made so far

vars == <<text, filter, file, pc, value, filters, err, frames, opened, visits>>

Init ==
  /\ text \in Content(DataDocs)
  /\ \/ filter \in BareCommands /\ file = Missing
     \/ filter = FilterFile /\ file \in Content(SpecDocs) \cup {Missing}
  /\ pc = "ready"
  /\ value = Null
  /\ filters = Null
  /\ err = NoErr
  /\ frames = <<>>
  /\ opened = {}
  /\ visits = <<>>

(***************************************************************************)
(* Reading and loading.                                                    *)
(***************************************************************************)
\* faulty variant: a syntax error is passed over like io.EOF
readJsonFromReaderLenient(content, e) ==
  [value |-> content.doc, err |-> NoErr]

\* (value, err) of readJsonFromReader: io.EOF is no error and leaves nil
readJsonFromReader(content, e) ==
  IF content.st = "bad" THEN [value |-> Null, err |-> e]
  ELSE [value |-> content.doc, err |-> NoErr]

readJsonFromText(jsonText) == readJsonFromReader(jsonText, DecodeErr)

readJsonFromFile(fileName, fs) ==
  IF fileName = FilterFile /\ fs.st # "missing"
  THEN readJsonFromReader(fs, FilterDecodeErr)
  ELSE [value |-> Null, err |-> OpenErr]

DotJson == <<".", "j", "s", "o", "n">>

\* faulty variant: every filter argument is taken as a command
loadFiltersCommand(f, fs) == [value |-> Str(f), err |-> NoErr]

loadFilters(f, fs) ==
  IF HasSuffix(f, DotJson)
  THEN readJsonFromFile(f, fs)
  ELSE [value |-> Str(f), err |-> NoErr]

\* the files loadFilters opens
loadFiltersOpens(f) == IF HasSuffix(f, DotJson) THEN {f} ELSE {}

(***************************************************************************)
(* The traversal.  A frame is a running range loop of traverseMap or       *)
(* traverseSlice (or the single call traverse makes for the root): the     *)
(* path of its container, the textual path, and the segments still to be   *)
(* visited.                                                                *)
(***************************************************************************)
RootSeg == [t |-> "root", k |-> <<>>, i |-> 0]

Frame(kind, path, pstr, todo) ==
  [kind |-> kind, path |-> path, pstr |-> pstr, todo |-> todo]

\* traverse: traverseWithPath(value, "", visit)
traverse == <<Frame("root", <<>>, <<>>, {RootSeg})>>

\* the segments the innermost loop may take next: a map is ranged over in
\* any order, a slice from index 0 upwards
Choices(f) ==
  IF f.kind = "slice"
  THEN {g \in f.todo : \A h \in f.todo : g.i <= h.i}
  ELSE f.todo

ChildPath(f, seg) == IF f.kind = "root" THEN <<>> ELSE Append(f.path, seg)

\* faulty variant: a field is written by its turn in the loop, not by its name
ChildPstrByTurn(f, seg) ==
  CASE f.kind = "root"  -> <<>>
    [] f.kind = "map"   -> SprintfIndex(f.pstr, Cardinality(f.todo) - 1)
    [] OTHER            -> SprintfIndex(f.pstr, seg.i)

ChildPstr(f, seg) ==
  CASE f.kind = "root"  -> <<>>
    [] f.kind = "map"   -> SprintfKey(f.pstr, seg.k)
    [] OTHER            -> SprintfIndex(f.pstr, seg.i)

\* loops with nothing left to visit return to their callers
RECURSIVE Unwind(_)
Unwind(fs) ==
  IF fs # <<>> /\ fs[Len(fs)].todo = {}
  THEN Unwind(SubSeq(fs, 1, Len(fs) - 1))
  ELSE fs

\* the frames once segment seg of the innermost loop is taken
Taken(fs, seg) ==
  [fs EXCEPT ![Len(fs)].todo = @ \ {seg}]

\* the textual path the loops build for the node at the structured path p
RECURSIVE PathString(_)
PathString(p) ==
  IF p = <<>> THEN <<>>
  ELSE LET q == SubSeq(p, 1, Len(p) - 1)
           seg == p[Len(p)]
       IN IF seg.t = "key" THEN SprintfKey(PathString(q), seg.k)
          ELSE SprintfIndex(PathString(q), seg.i)

\* faulty variant: numbers are visited like strings
traverseWithPathNumbers(v) ==
  CASE v.k \in {"string", "number"} -> "string"
    [] v.k = "object" -> "map"
    [] v.k = "array"  -> "slice"
    [] OTHER          -> "other"

\* the type switch of traverseWithPath
traverseWithPath(v) ==
  CASE v.k = "string" -> "string"
    [] v.k = "object" -> "map"
    [] v.k = "array"  -> "slice"
    [] OTHER          -> "other"

\* faulty variant: the loops do not break on an error
ContinuesAlways(e, rest) == rest # <<>>

\* a loop goes on to its next item unless the item returned an error
\* (if ...; err != nil { break }), and so do the loops around it
Continues(e, rest) == e = NoErr /\ rest # <<>>

\* the tree once the loop of frame f has stored the visitor's result for the
\* item at path p (m[k] = ..., slice[k] = ...); doFilter drops what traverse
\* returns for the root
\* faulty variant: the result is assigned to the container, not to its item
StoredInParent(f, tree, p, result) ==
  IF f.kind = "root" THEN tree ELSE SetAt(tree, f.path, Str(result))

\* faulty variant: an empty result is not assigned
StoredUnlessEmpty(f, tree, p, result) ==
  IF f.kind = "root" \/ result = <<>> THEN tree ELSE SetAt(tree, p, Str(result))

Stored(f, tree, p, result) ==
  IF f.kind = "root" THEN tree ELSE SetAt(tree, p, Str(result))

\* faulty variant: a leaf without a command is an error
doRunFilterStrict(path, v, flt, fail, failResult, n) ==
  LET c == getFilterCommand(path, flt) IN
  IF c.found
  THEN IF fail THEN [result |-> failResult, err |-> RunnerErr(n)]
       ELSE [result |-> RunnerResult(c.command, v), err |-> NoErr]
  ELSE [result |-> v, err |-> RunnerErr(n)]

\* (result, err) of doRunFilter; fail and failResult say what the runner does
\* faulty variant: the runner is run again on its own result
doRunFilterTwice(path, v, flt, fail, failResult, n) ==
  LET c == getFilterCommand(path, flt) IN
  IF c.found
  THEN IF fail THEN [result |-> failResult, err |-> RunnerErr(n)]
       ELSE [result |-> RunnerResult(c.command, RunnerResult(c.command, v)),
             err |-> NoErr]
  ELSE [result |-> v, err |-> NoErr]

doRunFilter(path, v, flt, fail, failResult, n) ==
  LET c == getFilterCommand(path, flt) IN
  IF c.found
  THEN IF fail THEN [result |-> failResult, err |-> RunnerErr(n)]
       ELSE [result |-> RunnerResult(c.command, v), err |-> NoErr]
  ELSE [result |-> v, err |-> NoErr]

\* faulty variant: the resolver leaves the command it found in place of the
\* specification
filtersAfterResolveCached(path, flt) ==
  LET c == getFilterCommand(path, flt)
  IN IF c.found THEN Str(c.command) ELSE flt

\* the specification after the visitor has resolved a path: doRunFilter,
\* getFilterCommand and getFilterCommandRec read it and assign nothing in it
filtersAfterResolve(path, flt) == flt

\* the calls of the filter runner made so far
Calls == SelectSeq(visits, LAMBDA c : c.found)

inputs == <<text, filter, file>>

\* FilterJsonFromText up to the call of traverse
FilterJsonFromText ==
  /\ pc = "ready"
  /\ LET r == readJsonFromText(text) IN
     /\ value' = r.value
     /\ IF r.err = NoErr
        THEN LET l == loadFilters(filter, file) IN
             /\ opened' = opened \cup loadFiltersOpens(filter)
             /\ filters' = l.value
             /\ err' = l.err
             /\ IF l.err = NoErr
                THEN pc' = "traverse" /\ frames' = traverse
                ELSE pc' = "done" /\ frames' = <<>>
        ELSE /\ err' = r.err
             /\ pc' = "done"
             /\ UNCHANGED <<filters, frames, opened>>
  /\ UNCHANGED <<inputs, visits>>

\* traverseWithPath, case string: the visitor is called and its result is
\* stored by the calling loop (the result for the root is dropped by doFilter)
VisitString(seg, fail, failResult) ==
  /\ pc = "traverse"
  /\ LET f == frames[Len(frames)]
         p == ChildPath(f, seg)
         ps == ChildPstr(f, seg)
         v == NodeAt(value, p)
         c == getFilterCommand(ps, filters)
         r == doRunFilter(ps, v.s, filters, fail, failResult, Len(Calls) + 1)
         rest == Unwind(Taken(frames, seg))
     IN /\ seg \in Choices(f)
        /\ traverseWithPath(v) = "string"
        \* the runner is asked only when a command is found
        /\ fail => c.found
        /\ ~fail => failResult = <<>>
        /\ visits' = Append(visits, [path |-> p, pstr |-> ps, value |-> v.s,
                                     found |-> c.found, command |-> c.command,
                                     result |-> r.result, err |-> r.err])
        /\ value' = Stored(f, value, p, r.result)
        /\ err' = r.err
        /\ filters' = filtersAfterResolve(ps, filters)
        /\ IF Continues(r.err, rest)
           THEN frames' = rest /\ pc' = "traverse"
           ELSE frames' = <<>> /\ pc' = "done"
  /\ UNCHANGED <<inputs, opened>>

\* traverseWithPath, case map: traverseMap starts to range over the fields
TraverseMap(seg) ==
  /\ pc = "traverse"
  /\ LET f == frames[Len(frames)]
         p == ChildPath(f, seg)
         v == NodeAt(value, p)
         todo == {Key(k) : k \in DOMAIN v.m}
         rest == Unwind(Append(Taken(frames, seg), Frame("map", p, ChildPstr(f, seg), todo)))
     IN /\ seg \in Choices(f)
        /\ traverseWithPath(v) = "map"
        /\ IF Continues(NoErr, rest)
           THEN frames' = rest /\ pc' = "traverse"
           ELSE frames' = <<>> /\ pc' = "done"
  /\ UNCHANGED <<inputs, value, filters, err, opened, visits>>

\* traverseWithPath, case slice: traverseSlice starts to range over the items
TraverseSlice(seg) ==
  /\ pc = "traverse"
  /\ LET f == frames[Len(frames)]
         p == ChildPath(f, seg)
         v == NodeAt(value, p)
         todo == {Index(j - 1) : j \in 1..Len(v.a)}
         rest == Unwind(Append(Taken(frames, seg), Frame("slice", p, ChildPstr(f, seg), todo)))
     IN /\ seg \in Choices(f)
        /\ traverseWithPath(v) = "slice"
        /\ IF Continues(NoErr, rest)
           THEN frames' = rest /\ pc' = "traverse"
           ELSE frames' = <<>> /\ pc' = "done"
  /\ UNCHANGED <<inputs, value, filters, err, opened, visits>>

\* traverseWithPath, any other value: returned as it is
TraverseOther(seg) ==
  /\ pc = "traverse"
  /\ LET f == frames[Len(frames)]
         v == NodeAt(value, ChildPath(f, seg))
         rest == Unwind(Taken(frames, seg))
     IN /\ seg \in Choices(f)
        /\ traverseWithPath(v) = "other"
        /\ IF Continues(NoErr, rest)
           THEN frames' = rest /\ pc' = "traverse"
           ELSE frames' = <<>> /\ pc' = "done"
  /\ UNCHANGED <<inputs, value, filters, err, opened, visits>>

Segs == {RootSeg} \cup {Key(k) : k \in DataKeys} \cup {Index(i) : i \in 0..MaxArrLen}

Next ==
  \/ FilterJsonFromText
  \/ \E seg \in Segs, fail \in BOOLEAN, failResult \in FailResults :
       VisitString(seg, fail, failResult)
  \/ \E seg \in Segs : TraverseMap(seg)
  \/ \E seg \in Segs : TraverseSlice(seg)
  \/ \E seg \in Segs : TraverseOther(seg)

Spec == Init /\ [][Next]_vars

(***************************************************************************)
(* Notions the properties are stated with.                                 *)
(***************************************************************************)
\* the paths of the leaves (the nodes that are no object and no array) of v
RECURSIVE LeafPaths(_)
LeafPaths(v) ==
  CASE v.k = "object" ->
         UNION {{<<Key(k)>> \o p : p \in LeafPaths(v.m[k])} : k \in DOMAIN v.m}
    [] v.k = "array" ->
         UNION {{<<Index(j - 1)>> \o p : p \in LeafPaths(v.a[j])} : j \in 1..Len(v.a)}
    [] OTHER -> {<<>>}

StringPaths(v) == {p \in LeafPaths(v) : NodeAt(v, p).k = "string"}

VisitedPaths == {visits[i].path : i \in 1..Len(visits)}

BareCommand == ~HasSuffix(filter, DotJson)

\* the visit made last: every visit is the last one in the state it leads
\* to and is never changed afterwards, so what holds of the last visit in
\* every state holds of every visit
LastVisit == visits[Len(visits)]

\* the outcome (found, command) of a visit
Outcome(c) == [found |-> c.found, command |-> c.command]

\* the resolver applied to a structured path, through the textual path
Resolve(p, spec) == getFilterCommand(PathString(p), spec)

\* C1: with a bare command as the filter argument, every path resolved
\* (whatever its shape and depth, the empty path of a string document
\* included) is found with exactly that command, and a traversal that ends
\* without error has run that command on every string leaf of the document.
C1_UniformCommand ==
  BareCommand =>
    /\ \A i \in 1..Len(visits) :
         visits[i].found /\ visits[i].command = filter
    /\ (pc = "done" /\ err = NoErr) => VisitedPaths = StringPaths(text.doc)

C1_Witness ==
  /\ BareCommand /\ pc = "done" /\ err = NoErr
  /\ Len(visits) >= 3
  /\ \E i \in 1..Len(visits) : Len(visits[i].path) >= 3
  /\ \E i \in 1..Len(visits) : \E j \in 1..Len(visits[i].path) :
       visits[i].path[j].t = "idx"

\* C2: on success the returned value is the document in which every string
\* with a matching filter holds the runner's result, whatever the root is.
C2_ReturnsFilteredTree ==
  (pc = "done" /\ err = NoErr) =>
    \A i \in 1..Len(visits) :
      visits[i].found =>
        NodeAt(value, visits[i].path)
          = Str(RunnerResult(visits[i].command, visits[i].value))

\* the text of a segment: the field name, or the decimal text of the position
SegText(seg) == IF seg.t = "key" THEN seg.k ELSE Itoa(seg.i)

\* the specification node the segments of a path lead to, every segment
\* taken as it is in the data tree
RECURSIVE EntryRec(_, _)
EntryRec(p, spec) ==
  IF p = <<>> THEN Found(spec)
  ELSE CASE spec.k = "string" -> Found(spec)
         [] spec.k = "object" ->
              IF SegText(Head(p)) \in DOMAIN spec.m
              THEN EntryRec(Tail(p), spec.m[SegText(Head(p))])
              ELSE NotFound
         [] spec.k = "array" ->
              IF Len(spec.a) = 1 THEN EntryRec(Tail(p), spec.a[1])
              ELSE LET n == ParseInt(SegText(Head(p))) IN
                   IF n.ok /\ n.val >= 0 /\ n.val < Len(spec.a)
                   THEN EntryRec(Tail(p), spec.a[n.val + 1])
                   ELSE NotFound
         [] OTHER -> NotFound

HasEntry(p, spec) == EntryRec(p, spec).found /\ EntryRec(p, spec).node.k = "string"

\* C3: a string leaf whose path has no entry in the specification is not
\* handed to the runner and keeps its value, whatever characters its keys
\* are made of.
C3_NoEntryUnchanged ==
  \A i \in 1..Len(visits) :
    ~HasEntry(visits[i].path, filters) =>
      ~visits[i].found /\ visits[i].result = visits[i].value

\* C4: under an Object specification the key of the next segment is looked
\* up: a key that is present resolves like the remaining path against its
\* value, a key that is absent finds nothing.
C4_ObjectLookup ==
  \A i \in 1..Len(visits) :
    LET c == visits[i] IN
    (filters.k = "object" /\ c.path # <<>> /\ Head(c.path).t = "key") =>
      IF Head(c.path).k \in DOMAIN filters.m
      THEN Outcome(c) = Resolve(Tail(c.path), filters.m[Head(c.path).k])
      ELSE ~c.found

\* the specification has a node at the path q
RECURSIVE SpecHas(_, _)
SpecHas(spec, q) ==
  IF q = <<>> THEN TRUE
  ELSE IF Head(q).t = "key"
       THEN /\ spec.k = "object"
            /\ Head(q).k \in DOMAIN spec.m
            /\ SpecHas(spec.m[Head(q).k], Tail(q))
       ELSE /\ spec.k = "array"
            /\ Head(q).i < Len(spec.a)
            /\ SpecHas(spec.a[Head(q).i + 1], Tail(q))

\* C5: a String of the specification is the command of every string leaf
\* of the data tree at or below the path of that String.
C5_StringCoversSubtree ==
  \A i \in 1..Len(visits) :
    LET c == visits[i] IN
    \A j \in 0..Len(c.path) :
      LET q == SubSeq(c.path, 1, j) IN
      (SpecHas(filters, q) /\ NodeAt(filters, q).k = "string") =>
        c.found /\ c.command = NodeAt(filters, q).s

\* the specification node the resolver reaches along the path q
NodeReached(q, spec) == getFilterCommandRec(FieldsFunc(PathString(q)), spec)

Rest(p, j) == SubSeq(p, j + 1, Len(p))

\* C6: where the resolver reaches a single-element array and the next
\* segment is an array position, the leaf resolves like the remaining path
\* against the only element, whatever the position is.
C6_ArrayBroadcast ==
  visits # <<>> =>
    LET c == LastVisit IN
    \A j \in 1..Len(c.path) :
      LET n == NodeReached(SubSeq(c.path, 1, j - 1), filters) IN
      (c.path[j].t = "idx" /\ n.found /\ n.node.k = "array" /\ Len(n.node.a) = 1) =>
        Outcome(c) = Resolve(Rest(c.path, j), n.node.a[1])

C6_Witness ==
  /\ pc = "done" /\ err = NoErr
  /\ filters = Arr(<<Cu>>)
  /\ \E i \in 1..Len(visits) :
       visits[i].path = <<Index(2)>> /\ visits[i].found /\ visits[i].command = <<"u">>

\* C7: where the resolver reaches an array of n > 1 elements and the next
\* segment is the array position i, the leaf resolves like the remaining
\* path against element i when i < n, and for i >= n nothing is found, the
\* leaf keeps its value and no error arises.
C7_ArrayPositional ==
  visits # <<>> =>
    LET c == LastVisit IN
    \A j \in 1..Len(c.path) :
      LET n == NodeReached(SubSeq(c.path, 1, j - 1), filters) IN
      (c.path[j].t = "idx" /\ n.found /\ n.node.k = "array" /\ Len(n.node.a) > 1) =>
        IF c.path[j].i < Len(n.node.a)
        THEN Outcome(c) = Resolve(Rest(c.path, j), n.node.a[c.path[j].i + 1])
        ELSE ~c.found /\ c.result = c.value /\ c.err = NoErr

C7_Witness ==
  /\ pc = "done" /\ err = NoErr
  /\ filters = Arr(<<Cu, Cl>>)
  /\ Len(visits) = 3
  /\ visits[1].path = <<Index(0)>> /\ visits[1].command = <<"u">>
  /\ visits[2].path = <<Index(1)>> /\ visits[2].command = <<"l">>
  /\ visits[3].path = <<Index(2)>> /\ ~visits[3].found
  /\ value = Arr(<<Str(<<"u", ":", "x">>), Str(<<"l", ":", "x">>), Sx>>)

\* C8: an error of the runner ends the operation: the failing call is the
\* last call of the runner, the operation is over and returns that very
\* error, and the runner has been called as many times as the position of
\* the failing call, at every depth and in every order of the fields.
C8_FailFast ==
  /\ \A i \in 1..Len(visits) :
       visits[i].err # NoErr =>
         /\ i = Len(visits)
         /\ pc = "done"
         /\ frames = <<>>
         /\ err = visits[i].err
         /\ Len(Calls) = err.at
  /\ err.kind = "runner" =>
       /\ visits # <<>>
       /\ visits[Len(visits)].err = err

C8_Witness ==
  /\ pc = "done" /\ err.kind = "runner" /\ err.at = 2
  /\ Len(visits[Len(visits)].path) >= 3
  /\ \E p \in StringPaths(text.doc) \ VisitedPaths : Resolve(p, filters).found

\* C9: numbers, booleans and nulls of the document are never handed to the
\* visitor and are in the result as they were in the input, whatever the
\* specification is.
C9_NonStringUntouched ==
  (pc # "ready" /\ text.st = "ok") =>
    /\ \A i \in 1..Len(visits) : NodeAt(text.doc, visits[i].path).k = "string"
    /\ \A p \in LeafPaths(text.doc) :
         NodeAt(text.doc, p).k # "string" => NodeAt(value, p) = NodeAt(text.doc, p)

C9_Witness ==
  /\ pc = "done" /\ err = NoErr /\ BareCommand
  /\ visits # <<>>
  /\ \E p \in LeafPaths(text.doc) :
       /\ Len(p) >= 2
       /\ NodeAt(text.doc, p).k = "number"
       /\ NodeAt(value, p) = Num(7)

\* C10: a leaf for which the resolver finds nothing is no error: nothing is
\* found where the resolver stops before the end of the path, ends on a
\* Number, Boolean or Null, or ends on an Object or Array with the path used
\* up; such a leaf keeps its value, its visit returns no error, the
\* traversal goes on, and without a failing runner the operation visits
\* every string leaf and returns no error.
C10_NoMatchNoError ==
  /\ visits # <<>> =>
       LET c == LastVisit IN
       /\ ~c.found => (c.err = NoErr /\ c.result = c.value)
       /\ \A j \in 0..Len(c.path) :
            LET n == NodeReached(SubSeq(c.path, 1, j), filters) IN
            (\/ ~n.found
             \/ n.node.k \in {"number", "bool", "null"}
             \/ (j = Len(c.path) /\ n.node.k \in {"object", "array"}))
              => ~c.found
  /\ (pc = "done" /\ text.st # "bad" /\ filters = loadFilters(filter, file).value
        /\ loadFilters(filter, file).err = NoErr
        /\ \A i \in 1..Len(visits) : visits[i].found => visits[i].err = NoErr) =>
       /\ err = NoErr
       /\ VisitedPaths = StringPaths(text.doc)

C10_Witness ==
  /\ pc = "done" /\ err = NoErr
  /\ Len(visits) >= 3
  /\ ~visits[1].found /\ visits[2].found /\ ~visits[3].found
  /\ filters.k = "object"
  /\ \E i \in 1..Len(visits) :
       NodeReached(visits[i].path, filters).found
         /\ NodeReached(visits[i].path, filters).node.k \in {"number", "object", "array"}
  /\ \E i \in 1..Len(visits) : ~NodeReached(visits[i].path, filters).found

\* C11: when the JSON input cannot be decoded, or the specification file
\* cannot be opened or decoded, the operation is over at once with that
\* error: no traversal is running and the runner was never called.
C11_LoadErrorsStopEarly ==
  pc # "ready" =>
    /\ text.st = "bad" =>
         (pc = "done" /\ err = DecodeErr /\ frames = <<>> /\ visits = <<>>
            /\ opened = {})
    /\ (text.st # "bad" /\ loadFilters(filter, file).err # NoErr) =>
         (pc = "done" /\ err = loadFilters(filter, file).err /\ frames = <<>>
            /\ visits = <<>> /\ value = text.doc)

C11_Witness ==
  /\ pc = "done" /\ err = FilterDecodeErr /\ visits = <<>>
  /\ StringPaths(text.doc) # {}

\* C12: a filter argument ending in ".json" is opened as a file and what the
\* file decodes to is the specification; any other argument is itself the
\* specification, a String, no file is opened for it and loading it gives no
\* error.
C12_LoadDispatch ==
  (pc # "ready" /\ text.st # "bad") =>
    IF HasSuffix(filter, DotJson)
    THEN /\ opened = {filter}
         /\ file.st \in {"ok", "eof"} =>
              (filters = file.doc /\ err.kind \notin {"open", "filterdecode"})
         /\ file.st = "bad" => err = FilterDecodeErr
         /\ file.st = "missing" => err = OpenErr
    ELSE /\ opened = {}
         /\ filters = Str(filter)
         /\ err.kind \notin {"open", "filterdecode"}

C12_Witness ==
  /\ pc = "done" /\ err = NoErr
  /\ filter = FilterFile /\ opened = {FilterFile}
  /\ file.st = "ok" /\ file.doc.k = "object" /\ filters = file.doc
  /\ \E i \in 1..Len(visits) : visits[i].found

\* C13: where the resolver reaches an array of more than one element, a
\* leaf is found only if the next segment is an array position within the
\* array; a field name at that place, one written in digits included, finds
\* nothing.
C13_ArrayNeedsIndex ==
  \A i \in 1..Len(visits) :
    LET c == visits[i] IN
    \A j \in 1..Len(c.path) :
      LET n == NodeReached(SubSeq(c.path, 1, j - 1), filters) IN
      (n.found /\ n.node.k = "array" /\ Len(n.node.a) > 1) =>
        IF c.path[j].t = "idx"
        THEN c.found => c.path[j].i < Len(n.node.a)
        ELSE ~c.found

\* C14: the specification is only read: from the moment it is loaded, through
\* every resolution and up to the end of the traversal, complete or aborted,
\* it is the tree that was loaded.
C14_FiltersReadOnly ==
  (pc # "ready" /\ text.st # "bad" /\ loadFilters(filter, file).err = NoErr) =>
    filters = loadFilters(filter, file).value

C14_Witness ==
  /\ pc = "done" /\ err.kind = "runner"
  /\ Len(Calls) >= 2
  /\ filters.k = "object" /\ filters = file.doc

\* what a traversal with a runner that never fails makes of the node v at
\* the path p, told without any order of visiting
RECURSIVE Filtered(_, _, _)
Filtered(v, p, spec) ==
  CASE v.k = "object" ->
         Obj([k \in DOMAIN v.m |-> Filtered(v.m[k], Append(p, Key(k)), spec)])
    [] v.k = "array" ->
         Arr([j \in 1..Len(v.a) |-> Filtered(v.a[j], Append(p, Index(j - 1)), spec)])
    [] v.k = "string" ->
         LET c == Resolve(p, spec)
         IN IF c.found THEN Str(RunnerResult(c.command, v.s)) ELSE v
    [] OTHER -> v

\* the value the operation returns then: the root itself is never replaced
FinalTree(doc, spec) == IF doc.k = "string" THEN doc ELSE Filtered(doc, <<>>, spec)

\* C15: with a runner that is a function of (command, value) and never
\* fails, the returned tree is the same in whatever order the fields of the
\* objects were visited: it is the tree given by the document and the
\* specification alone.
C15_OrderIndependent ==
  (pc = "done" /\ err = NoErr) => value = FinalTree(text.doc, filters)

\* two fields, both filtered, visited against the order of their names
C15_Witness ==
  /\ pc = "done" /\ err = NoErr
  /\ Len(visits) = 2
  /\ visits[1].path = <<Key(Kb)>> /\ visits[1].found
  /\ visits[2].path = <<Key(Ka)>> /\ visits[2].found
  /\ value # text.doc

\* two trees of the same structure: the same kind of node at every place,
\* the same fields, the same lengths, and equal leaves but for strings
RECURSIVE SameShape(_, _)
SameShape(v, w) ==
  /\ v.k = w.k
  /\ CASE v.k = "object" ->
            /\ DOMAIN v.m = DOMAIN w.m
            /\ \A k \in DOMAIN v.m : SameShape(v.m[k], w.m[k])
       [] v.k = "array" ->
            /\ Len(v.a) = Len(w.a)
            /\ \A j \in 1..Len(v.a) : SameShape(v.a[j], w.a[j])
       [] v.k = "string" -> TRUE
       [] OTHER -> v = w

\* C16: at every moment after decoding, during the traversal and after its
\* end, complete or aborted, the data tree has the structure of the decoded
\* document: only the content of string leaves may differ.
C16_ShapePreserved ==
  (pc # "ready" /\ text.st # "bad") => SameShape(text.doc, value)

C16_Witness ==
  /\ pc = "done" /\ err.kind = "runner"
  /\ value # text.doc
  /\ text.doc.k = "object"
  /\ \E k \in DOMAIN text.doc.m : text.doc.m[k].k = "array"
  /\ \E p \in LeafPaths(text.doc) : NodeAt(text.doc, p).k \notin {"string", "array", "object"}

\* the string leaves of the document the specification has a command for
Matching == {p \in StringPaths(text.doc) : Resolve(p, filters).found}

\* C17: every call of the runner gets the value the leaf has in the decoded
\* document and its result is the outcome of one run on that value; after a
\* traversal without error the runner has been called once for each string
\* leaf with a command, and for no other leaf.
C17_OncePerMatchingLeaf ==
  LET cs == Calls IN
  /\ (visits # <<>> /\ LastVisit.found) =>
       LET c == LastVisit IN
       /\ c.path \in StringPaths(text.doc)
       /\ c.value = NodeAt(text.doc, c.path).s
       /\ c.err = NoErr => c.result = RunnerResult(c.command, c.value)
       /\ \A i \in 1..(Len(cs) - 1) : cs[i].path # c.path
  /\ (pc = "done" /\ err = NoErr) =>
       /\ {cs[i].path : i \in 1..Len(cs)} = Matching
       /\ Len(cs) = Cardinality(Matching)

C17_Witness ==
  /\ pc = "done" /\ err = NoErr
  /\ Len(Calls) >= 2
  /\ Matching # StringPaths(text.doc)
  /\ filters.k # "string"

\* the visit of the leaf at the path p
VisitOf(p) == CHOOSE i \in 1..Len(visits) : visits[i].path = p

\* C18: when the runner has failed, the operation returns the error and the
\* tree as far as it got: a leaf visited before the failure holds the
\* runner's result (its own value if it has no command), a leaf not reached
\* holds its original value, and the failing leaf, when it is an item of an
\* object or of an array, holds the string the runner returned with the
\* error.
C18_PartialTreeOnAbort ==
  (pc = "done" /\ err.kind = "runner") =>
    /\ err = RunnerErr(Len(Calls))
    /\ \A p \in StringPaths(text.doc) :
         IF p \in VisitedPaths
         THEN LET i == VisitOf(p)
                  c == visits[i]
              IN IF i < Len(visits)
                 THEN NodeAt(value, p)
                        = IF c.found THEN Str(RunnerResult(c.command, c.value))
                          ELSE Str(c.value)
                 ELSE /\ c.err = err
                      /\ IF p = <<>> THEN value = text.doc
                         ELSE NodeAt(value, p) = Str(c.result)
         ELSE NodeAt(value, p) = NodeAt(text.doc, p)

C18_Witness ==
  /\ pc = "done" /\ err.kind = "runner"
  /\ Len(visits) >= 2 /\ visits[1].found
  /\ visits[Len(visits)].result = <<"E">>
  /\ NodeAt(value, visits[Len(visits)].path) = Str(<<"E">>)
  /\ StringPaths(text.doc) \ VisitedPaths # {}

\* a segment of the other kind with the same text: the field named by the
\* decimal text of a position, the position a field name is the decimal
\* text of
OtherKind(seg) ==
  IF seg.t = "idx" THEN Key(Itoa(seg.i))
  ELSE LET n == ParseInt(seg.k) IN
       IF n.ok /\ n.val >= 0 /\ Itoa(n.val) = seg.k THEN Index(n.val) ELSE seg

\* C19: the resolver goes by the text of a segment, not by its kind: a path
\* in which one position is written as the field named by its decimal text,
\* or such a field as the position, resolves alike; so an item of a data
\* array under an Object of the specification is resolved through the field
\* named by the decimal text of its position.
C19_SegmentKindIgnored ==
  visits # <<>> =>
    LET c == LastVisit IN
    \A j \in 1..Len(c.path) :
      /\ Resolve([c.path EXCEPT ![j] = OtherKind(c.path[j])], filters) = Outcome(c)
      /\ LET n == NodeReached(SubSeq(c.path, 1, j - 1), filters) IN
         (c.path[j].t = "idx" /\ n.found /\ n.node.k = "object") =>
           IF Itoa(c.path[j].i) \in DOMAIN n.node.m
           THEN Outcome(c) = Resolve(Rest(c.path, j), n.node.m[Itoa(c.path[j].i)])
           ELSE ~c.found

C19_Witness ==
  /\ pc = "done" /\ err = NoErr
  /\ text.doc.k = "array" /\ filters = Obj(K0 :> Cu)
  /\ Len(visits) >= 2
  /\ visits[1].path = <<Index(0)>>
  /\ visits[1].found /\ visits[1].command = <<"u">>
  /\ ~visits[2].found

====
